---- MODULE Spec2Model ----
(***************************************************************************)
(* Julabo chiller serial protocol: the Session Driver (SerialWorker in     *)
(* main.py) and the Device Responder (simulate_chiller in chiller.py).     *)
(*                                                                         *)
(* Text is modelled as a sequence of characters, each character a          *)
(* one-character string; bytes on the serial line are the same characters. *)
(* EAcute stands for a character outside ASCII, HighByte for a byte >=     *)
(* 0x80, and None (a one-element sequence no text equals) for Python's     *)
(* None.                                                                   *)
(***************************************************************************)
EXTENDS Integers, Sequences, FiniteSets, TLC

VARIABLES
  commands,        \* SerialWorker.commands: list of (cmd, param)
  append_newline,  \* SerialWorker.append_newline
  tx_delay,        \* SerialWorker.tx_delay (0, or 1 for any positive delay)
  is_running,      \* SerialWorker._is_running
  ser,             \* the driver's port handle: "unopened", "open", "closed"
  pc,              \* position of SerialWorker.run
  idx,             \* index of the for loop over commands (1-based)
  full_command,    \* the frame of the command in flight
  chpos,           \* index of the next character of the byte-at-a-time loop
  raw_response,    \* what the latest ser.readline() returned
  wire,            \* every byte the driver has written, in order
  events,          \* signals emitted by the worker, in order
  stopAt,          \* history: number of Sending events emitted when stop() was
                   \* first called inside the session, -1 otherwise
  r_pc,            \* position of simulate_chiller
  r_in,            \* bytes received by the responder's port, not yet read
  r_feed,          \* bytes of the peer's current frame not yet arrived
  r_fed,           \* number of frames the peer has sent
  r_timeouts,      \* number of reads that ended at the timeout with bytes
  data,            \* simulate_chiller: data, <<>> between iterations
  response,        \* simulate_chiller: response, <<>> between iterations
  r_out,           \* the responder's latest write to its port
  r_writes,        \* number of writes the responder has made
  ser_in,          \* bytes the responder wrote that wait unread in the driver's port
  command_list,    \* MainWindow.command_list: items in list order
  custom_list_display,    \* MainWindow.custom_list_display: items in list order
  out_params_layout,      \* MainWindow.out_params_layout: the parameter fields shown
  out_params_widgets,     \* MainWindow.out_params_widgets: text -> field of the layout
  custom_command_counter  \* MainWindow.custom_command_counter

driverVars == <<commands, append_newline, tx_delay, is_running, ser, pc, idx,
                full_command, chpos, raw_response, wire, events, stopAt>>
responderVars == <<r_pc, r_in, r_feed, r_fed, r_timeouts, data, response, r_out, r_writes>>
windowVars == <<command_list, custom_list_display, out_params_layout,
                out_params_widgets, custom_command_counter>>
vars == <<driverVars, responderVars, ser_in, windowVars>>

----------------------------------------------------------------------------
(* Bounds of the model *)

MaxCommands == 2
MaxFrames == 2
MaxTimeouts == 1
MaxTextLen == 3
MaxCustom == 2

----------------------------------------------------------------------------
(* Characters and text *)

None == <<"None">>
EAcute == "U+00E9"
HighByte == "0xE9"
CR == "\r"
LF == "\n"
SP == " "

\* str.strip() with no argument strips these (the ASCII whitespace)
Whitespace == {" ", "\t", "\n", "\r", "\f"}

IsAscii(c) == c \notin {EAcute, HighByte}

S_VERSION == <<"V", "E", "R", "S", "I", "O", "N">>
S_status == <<"s", "t", "a", "t", "u", "s">>
S_in_mode_05 == <<"i", "n", "_", "m", "o", "d", "e", "_", "0", "5">>
S_in_mode_04 == <<"i", "n", "_", "m", "o", "d", "e", "_", "0", "4">>
S_in_sp_06 == <<"i", "n", "_", "s", "p", "_", "0", "6">>
S_in_sp_00 == <<"i", "n", "_", "s", "p", "_", "0", "0">>
S_in_pv_00 == <<"i", "n", "_", "p", "v", "_", "0", "0">>
S_in_pv_02 == <<"i", "n", "_", "p", "v", "_", "0", "2">>
S_in_pv_01 == <<"i", "n", "_", "p", "v", "_", "0", "1">>
S_out_sp_00 == <<"o", "u", "t", "_", "s", "p", "_", "0", "0">>
S_out_mode_05 == <<"o", "u", "t", "_", "m", "o", "d", "e", "_", "0", "5">>

StartsWith(s, p) == Len(s) >= Len(p) /\ SubSeq(s, 1, Len(p)) = p

RECURSIVE LStripSet(_, _)
LStripSet(s, chars) ==
  IF s # <<>> /\ Head(s) \in chars THEN LStripSet(Tail(s), chars) ELSE s

RECURSIVE RStripSet(_, _)
RStripSet(s, chars) ==
  IF s # <<>> /\ s[Len(s)] \in chars
    THEN RStripSet(SubSeq(s, 1, Len(s) - 1), chars)
    ELSE s

\* str.strip()
Strip(s) == LStripSet(RStripSet(s, Whitespace), Whitespace)

\* str.rstrip("\r\n"): drops every trailing character that is CR or LF
RStripCRLF(s) == RStripSet(s, {CR, LF})

\* bytes.decode("ascii", errors="ignore"): bytes outside ASCII are dropped
DecodeIgnore(raw) == SelectSeq(raw, IsAscii)

\* str.encode("ascii") raises UnicodeEncodeError unless every character is ASCII
Encodable(s) == \A i \in 1..Len(s) : IsAscii(s[i])

\* position of the first occurrence of c in s, 0 when absent
RECURSIVE IndexFrom(_, _, _)
IndexFrom(s, c, i) ==
  IF i > Len(s) THEN 0 ELSE IF s[i] = c THEN i ELSE IndexFrom(s, c, i + 1)
Find(s, c) == IndexFrom(s, c, 1)

----------------------------------------------------------------------------
(* Session Driver: SerialWorker, main.py *)

S_Sending == <<"S", "e", "n", "d", "i", "n", "g", ":", " ">>
S_Received == <<"R", "e", "c", "e", "i", "v", "e", "d", ":", " ">>
S_Error == <<"E", "r", "r", "o", "r", ":", " ">>
S_NoResponse == <<"N", "o", " ", "r", "e", "s", "p", "o", "n", "s", "e">>

\* exception messages ({e} in the Error line)
E_open == <<"o", "p", "e", "n">>
E_write == <<"w", "r", "i", "t", "e">>
E_flush == <<"f", "l", "u", "s", "h">>
E_read == <<"r", "e", "a", "d">>
E_ascii == <<"a", "s", "c", "i", "i">>

\* the command lists the sessions are run on
CommandPool ==
  { <<S_status, None>>,
    <<S_out_mode_05, <<"1">>>>,
    <<S_in_sp_00, <<>>>>,
    <<<<"t", EAcute>>, None>> }

RECURSIVE SeqsUpTo(_, _)
SeqsUpTo(S, n) ==
  IF n = 0 THEN {<<>>}
  ELSE LET shorter == SeqsUpTo(S, n - 1)
       IN  shorter \cup {Append(s, x) : s \in {t \in shorter : Len(t) = n - 1}, x \in S}

\* what ser.readline() can return: nothing, a line, a line of a device that
\* ends lines with CR LF after a high byte, a partial line
RawResponses ==
  { <<>>,
    <<"O", "K", CR, LF>>,
    <<"1", HighByte>> }

\* mutant: name and parameter are joined without the space
BaseCommandNoSpace(cmd, param) ==
  IF param # None /\ param # <<>> THEN cmd \o param ELSE cmd

\* main.py 51-54
BaseCommand(cmd, param) ==
  IF param # None /\ param # <<>> THEN cmd \o <<SP>> \o param ELSE cmd

\* mutant: the newline replaces the carriage return instead of following it
FullCommandLFOnly(cmd, param, newline) ==
  IF newline THEN BaseCommand(cmd, param) \o <<LF>>
             ELSE BaseCommand(cmd, param) \o <<CR>>

\* main.py 55-58
FullCommand(cmd, param, newline) ==
  IF newline THEN BaseCommand(cmd, param) \o <<CR, LF>>
             ELSE BaseCommand(cmd, param) \o <<CR>>

\* mutant: the empty read is decoded like any other
DecodeResponseNoDefault(raw) == RStripCRLF(DecodeIgnore(raw))

\* mutant: a read that ends without LF is reported like an empty one
DecodeResponsePartialAsNone(raw) ==
  IF raw = <<>> \/ raw[Len(raw)] # LF
    THEN S_NoResponse
    ELSE RStripCRLF(DecodeIgnore(raw))

\* main.py 70-73
DecodeResponse(raw) ==
  IF raw = <<>> THEN S_NoResponse ELSE RStripCRLF(DecodeIgnore(raw))

UpdateSignal(text) == [sig |-> "update_signal", arg |-> text]
Finished == [sig |-> "finished", arg |-> <<>>]
SendingLine(frame) == UpdateSignal(S_Sending \o Strip(frame))
ReceivedLine(resp) == UpdateSignal(S_Received \o resp \o <<LF>>)
ErrorLine(msg) == UpdateSignal(S_Error \o msg)

InitDriver ==
  /\ commands \in SeqsUpTo(CommandPool, MaxCommands)
  /\ append_newline \in BOOLEAN
  /\ tx_delay \in {0, 1}
  /\ is_running = TRUE
  /\ ser = "unopened"
  /\ pc = "open"
  /\ idx = 1
  /\ full_command = <<>>
  /\ chpos = 1
  /\ raw_response = <<>>
  /\ wire = <<>>
  /\ events = <<>>
  /\ stopAt = -1

\* mutant: the except clause returns without reaching finished.emit()
RaiseReturns(msg) ==
  /\ events' = Append(events, ErrorLine(msg))
  /\ pc' = "done"

\* the except clause of run: main.py 76-77
Raise(msg) ==
  /\ events' = Append(events, ErrorLine(msg))
  /\ pc' = "finish"

\* main.py 39-47, the port opens
Open ==
  /\ pc = "open"
  /\ ser' = "open"
  /\ pc' = "loop"
  /\ UNCHANGED <<commands, append_newline, tx_delay, is_running, idx,
                 full_command, chpos, wire, events, stopAt, raw_response>>

\* mutant: the failed open is swallowed and the loop is entered
OpenFailsIgnored ==
  /\ pc = "open"
  /\ pc' = "loop"
  /\ UNCHANGED <<commands, append_newline, tx_delay, is_running, ser, idx,
                 full_command, chpos, wire, events, stopAt, raw_response>>

\* main.py 39-47, serial.Serial raises
OpenFails ==
  /\ pc = "open"
  /\ Raise(E_open)
  /\ UNCHANGED <<commands, append_newline, tx_delay, is_running, ser, idx,
                 full_command, chpos, wire, stopAt, raw_response>>

\* main.py 48: the command list is exhausted
LoopEnd ==
  /\ pc = "loop"
  /\ idx > Len(commands)
  /\ pc' = "close"
  /\ UNCHANGED <<commands, append_newline, tx_delay, is_running, ser, idx,
                 full_command, chpos, wire, events, stopAt, raw_response>>

\* main.py 49-50
LoopBreak ==
  /\ pc = "loop"
  /\ idx <= Len(commands)
  /\ ~is_running
  /\ pc' = "close"
  /\ UNCHANGED <<commands, append_newline, tx_delay, is_running, ser, idx,
                 full_command, chpos, wire, events, stopAt, raw_response>>

\* mutant: the command is begun without looking at _is_running
BeginCommandUnchecked ==
  /\ pc = "loop"
  /\ idx <= Len(commands)
  /\ full_command' = FullCommand(commands[idx][1], commands[idx][2], append_newline)
  /\ events' = Append(events, SendingLine(full_command'))
  /\ chpos' = 1
  /\ pc' = "write"
  /\ UNCHANGED <<commands, append_newline, tx_delay, is_running, ser, idx,
                 wire, stopAt, raw_response>>

\* main.py 51-59
BeginCommand ==
  /\ pc = "loop"
  /\ idx <= Len(commands)
  /\ is_running
  /\ full_command' = FullCommand(commands[idx][1], commands[idx][2], append_newline)
  /\ events' = Append(events, SendingLine(full_command'))
  /\ chpos' = 1
  /\ pc' = "write"
  /\ UNCHANGED <<commands, append_newline, tx_delay, is_running, ser, idx,
                 wire, stopAt, raw_response>>

\* main.py 61-64: one character encoded, written and flushed
WriteByte ==
  /\ pc = "write"
  /\ tx_delay > 0
  /\ chpos <= Len(full_command)
  /\ IsAscii(full_command[chpos])
  /\ wire' = Append(wire, full_command[chpos])
  /\ chpos' = chpos + 1
  /\ pc' = IF chpos = Len(full_command) THEN "delay" ELSE "write"
  /\ UNCHANGED <<commands, append_newline, tx_delay, is_running, ser, idx,
                 full_command, events, stopAt, raw_response>>

\* main.py 66-67: the frame encoded, written and flushed in one operation
WriteFrame ==
  /\ pc = "write"
  /\ ~(tx_delay > 0)
  /\ Encodable(full_command)
  /\ wire' = wire \o full_command
  /\ pc' = "delay"
  /\ UNCHANGED <<commands, append_newline, tx_delay, is_running, ser, idx,
                 full_command, chpos, events, stopAt, raw_response>>

\* main.py 62, 66: encode("ascii") raises UnicodeEncodeError
EncodeFails ==
  /\ pc = "write"
  /\ IF tx_delay > 0
       THEN chpos <= Len(full_command) /\ ~IsAscii(full_command[chpos])
       ELSE ~Encodable(full_command)
  /\ Raise(E_ascii)
  /\ UNCHANGED <<commands, append_newline, tx_delay, is_running, ser, idx,
                 full_command, chpos, wire, stopAt, raw_response>>

\* main.py 62, 66: ser.write raises, nothing of this write is sent
WriteFails ==
  /\ pc = "write"
  /\ IF tx_delay > 0
       THEN chpos <= Len(full_command) /\ IsAscii(full_command[chpos])
       ELSE Encodable(full_command)
  /\ Raise(E_write)
  /\ UNCHANGED <<commands, append_newline, tx_delay, is_running, ser, idx,
                 full_command, chpos, wire, stopAt, raw_response>>

\* main.py 63, 67: ser.flush raises after the write went through
FlushFails ==
  /\ pc = "write"
  /\ IF tx_delay > 0
       THEN /\ chpos <= Len(full_command)
            /\ IsAscii(full_command[chpos])
            /\ wire' = Append(wire, full_command[chpos])
       ELSE /\ Encodable(full_command)
            /\ wire' = wire \o full_command
  /\ Raise(E_flush)
  /\ UNCHANGED <<commands, append_newline, tx_delay, is_running, ser, idx,
                 full_command, chpos, stopAt, raw_response>>

\* mutant: after the delay the loop goes on to the next command without
\* waiting for the response
CommandDelaySkipsRead ==
  /\ pc = "delay"
  /\ idx' = idx + 1
  /\ pc' = "loop"
  /\ UNCHANGED <<commands, append_newline, tx_delay, is_running, ser,
                 full_command, chpos, wire, events, stopAt, raw_response>>

\* main.py 68
CommandDelay ==
  /\ pc = "delay"
  /\ pc' = "read"
  /\ UNCHANGED <<commands, append_newline, tx_delay, is_running, ser, idx,
                 full_command, chpos, wire, events, stopAt, raw_response>>

\* mutant: a read that returns nothing emits no Received line
ReadLineQuietOnEmpty ==
  /\ pc = "read"
  /\ raw_response' \in RawResponses
  /\ events' = IF raw_response' = <<>> THEN events
               ELSE Append(events, ReceivedLine(DecodeResponse(raw_response')))
  /\ idx' = idx + 1
  /\ pc' = "loop"
  /\ UNCHANGED <<commands, append_newline, tx_delay, is_running, ser,
                 full_command, chpos, wire, stopAt>>

\* main.py 69-74, and the for loop's step to the next command
ReadLineReturning(raws) ==
  /\ pc = "read"
  /\ raw_response' \in raws
  /\ events' = Append(events, ReceivedLine(DecodeResponse(raw_response')))
  /\ idx' = idx + 1
  /\ pc' = "loop"
  /\ UNCHANGED <<commands, append_newline, tx_delay, is_running, ser,
                 full_command, chpos, wire, stopAt>>

\* main.py 69: the device is arbitrary, readline returns any of RawResponses
ReadLine == ReadLineReturning(RawResponses)

\* mutant: the failed read is reported and the command is sent again
ReadFailsRetry ==
  /\ pc = "read"
  /\ events' = Append(events, ErrorLine(E_read))
  /\ chpos' = 1
  /\ pc' = "write"
  /\ UNCHANGED <<commands, append_newline, tx_delay, is_running, ser, idx,
                 full_command, wire, stopAt, raw_response>>

\* main.py 69: ser.readline raises
ReadFails ==
  /\ pc = "read"
  /\ Raise(E_read)
  /\ UNCHANGED <<commands, append_newline, tx_delay, is_running, ser, idx,
                 full_command, chpos, wire, stopAt, raw_response>>

\* main.py 75
Close ==
  /\ pc = "close"
  /\ ser' = "closed"
  /\ pc' = "finish"
  /\ UNCHANGED <<commands, append_newline, tx_delay, is_running, idx,
                 full_command, chpos, wire, events, stopAt, raw_response>>

\* main.py 78
EmitFinished ==
  /\ pc = "finish"
  /\ events' = Append(events, Finished)
  /\ pc' = "done"
  /\ UNCHANGED <<commands, append_newline, tx_delay, is_running, ser, idx,
                 full_command, chpos, wire, stopAt, raw_response>>

\* number of commands whose Sending line has been emitted
Begun == IF pc \in {"write", "delay", "read"} THEN idx ELSE idx - 1

\* main.py 80-81, called from another thread while run has not returned
Stop ==
  /\ pc # "done"
  /\ is_running
  /\ is_running' = FALSE
  /\ stopAt' = IF pc \in {"open", "loop", "write", "delay", "read"} THEN Begun ELSE -1
  /\ UNCHANGED <<commands, append_newline, tx_delay, ser, pc, idx,
                 full_command, chpos, wire, events, raw_response>>

Run ==
  \/ Open
  \/ OpenFails
  \/ LoopEnd
  \/ LoopBreak
  \/ BeginCommand
  \/ WriteByte
  \/ WriteFrame
  \/ EncodeFails
  \/ WriteFails
  \/ FlushFails
  \/ CommandDelay
  \/ ReadLine
  \/ ReadFails
  \/ Close
  \/ EmitFinished

----------------------------------------------------------------------------
(* Device Responder: simulate_chiller, chiller.py *)

R_VERSION == <<"J", "U", "L", "A", "B", "O", "_", "V", "3", ".", "0">>
R_status == <<"0", "3", " ", "R", "E", "M", "O", "T", "E", " ", "S", "T", "A", "R", "T">>
R_in_mode_05 == <<"1">>
R_in_mode_04 == <<"0">>
R_in_sp_06 == <<"1", "4", ".", "5", "5">>
R_in_sp_00 == <<"2", ".", "0", "0">>
R_in_pv_00 == <<"1", "4", ".", "5", "5">>
R_in_pv_02 == <<"-", "-", "-", ".", "-", "-">>
R_in_pv_01 == <<"-", "1", "0", "0">>
S_SetpointUpdatedTo == <<"S", "e", "t", "p", "o", "i", "n", "t", " ", "u", "p", "d", "a", "t", "e", "d", " ", "t", "o", " ">>
S_MissingSp == <<"M", "i", "s", "s", "i", "n", "g", " ", "p", "a", "r", "a", "m", "e", "t", "e", "r", " ", "f", "o", "r", " ", "o", "u", "t", "_", "s", "p", "_", "0", "0">>
S_ChillerOn == <<"C", "h", "i", "l", "l", "e", "r", " ", "t", "u", "r", "n", "e", "d", " ", "o", "n">>
S_ChillerOff == <<"C", "h", "i", "l", "l", "e", "r", " ", "t", "u", "r", "n", "e", "d", " ", "o", "f", "f">>
S_MissingMode == <<"M", "i", "s", "s", "i", "n", "g", " ", "p", "a", "r", "a", "m", "e", "t", "e", "r", " ", "f", "o", "r", " ", "o", "u", "t", "_", "m", "o", "d", "e", "_", "0", "5">>
S_OK == <<"O", "K">>
S_foo == <<"f", "o", "o">>

\* chiller.py 5-15
RESPONSES ==
  (S_VERSION :> R_VERSION) @@ (S_status :> R_status) @@
  (S_in_mode_05 :> R_in_mode_05) @@ (S_in_mode_04 :> R_in_mode_04) @@
  (S_in_sp_06 :> R_in_sp_06) @@ (S_in_sp_00 :> R_in_sp_00) @@
  (S_in_pv_00 :> R_in_pv_00) @@ (S_in_pv_02 :> R_in_pv_02) @@
  (S_in_pv_01 :> R_in_pv_01)

\* position of the last occurrence of c in s, 0 when absent
RECURSIVE IndexBack(_, _, _)
IndexBack(s, c, i) ==
  IF i = 0 THEN 0 ELSE IF s[i] = c THEN i ELSE IndexBack(s, c, i - 1)

\* mutant: str.rsplit(" ", 1), the split is made at the last space
Split1Last(s) ==
  LET i == IndexBack(s, SP, Len(s))
  IN  IF i = 0 THEN <<s>>
      ELSE <<SubSeq(s, 1, i - 1), SubSeq(s, i + 1, Len(s))>>

\* str.split(" ", 1)
Split1(s) ==
  LET i == Find(s, SP)
  IN  IF i = 0 THEN <<s>>
      ELSE <<SubSeq(s, 1, i - 1), SubSeq(s, i + 1, Len(s))>>

\* mutant: RESPONSES[data], a line that is no key raises KeyError and the
\* message is sent back
S_KeyError == <<"K", "e", "y", "E", "r", "r", "o", "r">>
LookupStrict(line) == IF line \in DOMAIN RESPONSES THEN RESPONSES[line] ELSE S_KeyError

\* chiller.py 45: RESPONSES.get(data, "OK")
Lookup(line) == IF line \in DOMAIN RESPONSES THEN RESPONSES[line] ELSE S_OK

\* mutant: out_mode_05 turns the chiller on for every remainder that begins
\* with "1"
RespondModePrefix(line) ==
  LET parts == Split1(line)
  IN  IF StartsWith(line, S_out_sp_00)
        THEN IF Len(parts) > 1 THEN S_SetpointUpdatedTo \o parts[2] ELSE S_MissingSp
      ELSE IF StartsWith(line, S_out_mode_05)
        THEN IF Len(parts) > 1
               THEN IF StartsWith(parts[2], <<"1">>) THEN S_ChillerOn ELSE S_ChillerOff
               ELSE S_MissingMode
      ELSE Lookup(line)

\* chiller.py 32-45
Respond(line) ==
  LET parts == Split1(line)
  IN  IF StartsWith(line, S_out_sp_00)
        THEN IF Len(parts) > 1 THEN S_SetpointUpdatedTo \o parts[2] ELSE S_MissingSp
      ELSE IF StartsWith(line, S_out_mode_05)
        THEN IF Len(parts) > 1
               THEN IF parts[2] = <<"1">> THEN S_ChillerOn ELSE S_ChillerOff
               ELSE S_MissingMode
      ELSE Lookup(line)

\* the lines a peer sends to the responder, without terminator
InboundLines ==
  DOMAIN RESPONSES \cup
  { S_out_sp_00,
    S_out_sp_00 \o <<SP, "5", ".", "0", "0">>,
    S_out_sp_00 \o <<"1", SP, "7">>,
    S_out_sp_00 \o <<SP, SP, "2">>,
    S_out_mode_05,
    S_out_mode_05 \o <<SP, "1">>,
    S_out_mode_05 \o <<SP, "0">>,
    S_out_mode_05 \o <<SP, "1", "1">>,
    S_in_sp_00 \o <<SP, "9">>,
    S_foo,
    <<>>,
    <<"t", HighByte>> }

\* the frames a peer sends: a line ended by CR or by CR LF (main.py 55-58)
InboundFrames ==
  {l \o <<CR>> : l \in InboundLines} \cup {l \o <<CR, LF>> : l \in DOMAIN RESPONSES}

InitResponder ==
  /\ r_pc = "read"
  /\ r_in = <<>>
  /\ r_feed = <<>>
  /\ r_fed = 0
  /\ r_timeouts = 0
  /\ data = <<>>
  /\ response = <<>>
  /\ r_out = <<>>
  /\ r_writes = 0

\* the peer writes a frame to the line, once the responder has taken up the
\* lines sent before
PeerSendFrom(frames) ==
  /\ r_feed = <<>>
  /\ Find(r_in, CR) = 0
  /\ r_fed < MaxFrames
  /\ \E f \in frames : r_feed' = f
  /\ r_fed' = r_fed + 1
  /\ UNCHANGED <<r_pc, r_in, r_timeouts, data, response, r_out, r_writes>>

PeerSend == PeerSendFrom(InboundFrames)

\* one byte of the frame reaches the responder's port
ArriveByte ==
  /\ r_feed # <<>>
  /\ r_in' = Append(r_in, Head(r_feed))
  /\ r_feed' = Tail(r_feed)
  /\ UNCHANGED <<r_pc, r_fed, r_timeouts, data, response, r_out, r_writes>>

\* the rest of the frame reaches the responder's port
ArriveAll ==
  /\ Len(r_feed) > 1
  /\ r_in' = r_in \o r_feed
  /\ r_feed' = <<>>
  /\ UNCHANGED <<r_pc, r_fed, r_timeouts, data, response, r_out, r_writes>>

\* mutant: the line is decoded but not stripped
HandleNoStrip(raw) ==
  IF ~Encodable(raw)
    THEN /\ r_pc' = "crashed"
         /\ UNCHANGED <<data, response>>
    ELSE /\ data' = raw
         /\ IF data' # <<>>
              THEN /\ response' = Respond(data')
                   /\ r_pc' = "latency"
              ELSE /\ r_pc' = "idle"
                   /\ UNCHANGED response

\* mutant: the test of line 30 is missing, an empty line is dispatched too
HandleAnswersEmpty(raw) ==
  IF ~Encodable(raw)
    THEN /\ r_pc' = "crashed"
         /\ UNCHANGED <<data, response>>
    ELSE /\ data' = Strip(raw)
         /\ response' = Respond(data')
         /\ r_pc' = "latency"

\* mutant: the responder remembers the setpoint it was last given and
\* answers in_sp_00 with it
HandleRemembers(raw) ==
  IF ~Encodable(raw)
    THEN /\ r_pc' = "crashed"
         /\ UNCHANGED <<data, response>>
    ELSE /\ data' = Strip(raw)
         /\ IF data' # <<>>
              THEN /\ response' =
                        IF data' = S_in_sp_00 /\ StartsWith(r_out, S_SetpointUpdatedTo)
                          THEN RStripCRLF(SubSeq(r_out, Len(S_SetpointUpdatedTo) + 1, Len(r_out)))
                          ELSE Respond(data')
                   /\ r_pc' = "latency"
              ELSE /\ r_pc' = "idle"
                   /\ UNCHANGED response

\* chiller.py 29-32, 50: the bytes raw returned by read_until are decoded and
\* stripped; decode("ascii") raises on a byte >= 0x80 and nothing catches it
Handle(raw) ==
  IF ~Encodable(raw)
    THEN /\ r_pc' = "crashed"
         /\ UNCHANGED <<data, response>>
    ELSE /\ data' = Strip(raw)
         /\ IF data' # <<>>
              THEN /\ response' = Respond(data')
                   /\ r_pc' = "latency"
              ELSE /\ r_pc' = "idle"
                   /\ UNCHANGED response

\* chiller.py 29: read_until returns the bytes up to and including the first CR
ReadUntil ==
  /\ r_pc = "read"
  /\ Find(r_in, CR) > 0
  /\ Handle(SubSeq(r_in, 1, Find(r_in, CR)))
  /\ r_in' = SubSeq(r_in, Find(r_in, CR) + 1, Len(r_in))
  /\ UNCHANGED <<r_feed, r_fed, r_timeouts, r_out, r_writes>>

\* chiller.py 24, 29: no CR within the port's timeout, read_until returns
\* what has arrived
ReadTimeout ==
  /\ r_pc = "read"
  /\ Find(r_in, CR) = 0
  /\ r_in # <<>> => r_timeouts < MaxTimeouts
  /\ Handle(r_in)
  /\ r_in' = <<>>
  /\ r_timeouts' = IF r_in # <<>> THEN r_timeouts + 1 ELSE r_timeouts
  /\ UNCHANGED <<r_feed, r_fed, r_out, r_writes>>

\* mutant: the iteration ends after the sleep, the response is not written
LatencySkipsWrite ==
  /\ r_pc = "latency"
  /\ r_pc' = "read"
  /\ data' = <<>>
  /\ response' = <<>>
  /\ UNCHANGED <<r_in, r_feed, r_fed, r_timeouts, r_out, r_writes>>

\* chiller.py 46-47
Latency ==
  /\ r_pc = "latency"
  /\ r_pc' = "write"
  /\ UNCHANGED <<r_in, r_feed, r_fed, r_timeouts, data, response, r_out, r_writes>>

\* chiller.py 46, 48-49; the next iteration assigns data and response anew
\* before it reads them, so the loop's back edge forgets them
WriteResponse ==
  /\ r_pc = "write"
  /\ r_out' = response \o <<CR, LF>>
  /\ r_writes' = r_writes + 1
  /\ r_pc' = "read"
  /\ data' = <<>>
  /\ response' = <<>>
  /\ UNCHANGED <<r_in, r_feed, r_fed, r_timeouts>>

\* chiller.py 50-51
Idle ==
  /\ r_pc = "idle"
  /\ r_pc' = "read"
  /\ UNCHANGED <<r_in, r_feed, r_fed, r_timeouts, data, response, r_out, r_writes>>

Responder ==
  \/ ReadUntil
  \/ ReadTimeout
  \/ Latency
  \/ WriteResponse
  \/ Idle

Peer ==
  \/ PeerSend
  \/ ArriveByte
  \/ ArriveAll

----------------------------------------------------------------------------
(* The window: the command list, the custom commands and their parameters *)

\* main.py 221-225
standard_commands ==
  << S_VERSION, S_status, S_in_mode_05, S_in_mode_04, S_in_sp_06, S_in_sp_00,
     S_in_pv_00, S_in_pv_02, S_in_pv_01, S_out_sp_00, S_out_mode_05 >>

S_24_00 == <<"2", "4", ".", "0", "0">>
S_x == <<"x">>

\* main.py 227-229: an item of a standard command carries no data
StandardItem(cmd) ==
  [text |-> cmd, checked |-> TRUE, custom |-> FALSE, accepts_param |-> FALSE, id |-> 0]

\* main.py 360-363
CustomItem(cmd_text, accepts_param, cmd_id) ==
  [text |-> cmd_text, checked |-> TRUE, custom |-> TRUE,
   accepts_param |-> accepts_param, id |-> cmd_id]

\* what the user may type into custom_command_edit
CustomTexts == {S_x, <<SP, "x", SP>>, S_out_sp_00, <<SP>>}

\* what the user may type into a parameter field
ParamTexts == {S_24_00, <<SP, "5", SP>>, <<>>}

\* main.py 187, 219-257
InitWindow ==
  /\ command_list = [i \in 1..Len(standard_commands) |-> StandardItem(standard_commands[i])]
  /\ custom_list_display = <<>>
  /\ out_params_layout = << [label |-> S_out_sp_00, text |-> S_24_00],
                            [label |-> S_out_mode_05, text |-> <<"1">>] >>
  /\ out_params_widgets = (S_out_sp_00 :> 1) @@ (S_out_mode_05 :> 2)
  /\ custom_command_counter = 0

\* main.py 353-379
add_custom_command(typed, accepts_param) ==
  LET cmd_text == Strip(typed)
      cmd_id == custom_command_counter + 1
  IN IF cmd_text = <<>>
       THEN UNCHANGED windowVars
       ELSE /\ custom_command_counter' = cmd_id
            /\ command_list' = Append(command_list, CustomItem(cmd_text, accepts_param, cmd_id))
            /\ custom_list_display' = Append(custom_list_display, [text |-> cmd_text, id |-> cmd_id])
            /\ IF accepts_param /\ cmd_text \notin DOMAIN out_params_widgets
                 THEN /\ out_params_layout' =
                           Append(out_params_layout, [label |-> cmd_text, text |-> <<>>])
                      /\ out_params_widgets' =
                           out_params_widgets @@ (cmd_text :> Len(out_params_layout) + 1)
                 ELSE UNCHANGED <<out_params_layout, out_params_widgets>>

AddCustomCommand ==
  /\ custom_command_counter < MaxCustom
  /\ \E typed \in CustomTexts, accepts_param \in BOOLEAN :
       add_custom_command(typed, accepts_param)

\* main.py 381-399, selected being the rows selected in custom_list_display
delete_selected_custom_commands(selected) ==
  LET ids == {custom_list_display[r].id : r \in selected}
      Kept(item) == item.id \notin ids
      KeptUnified(item) == ~(item.custom /\ item.id \in ids)
      removed == {command_list[i].text :
                    i \in {j \in 1..Len(command_list) : ~KeptUnified(command_list[j])}}
  IN /\ custom_list_display' = SelectSeq(custom_list_display, Kept)
     /\ command_list' = SelectSeq(command_list, KeptUnified)
     /\ out_params_widgets' =
          [t \in DOMAIN out_params_widgets \ removed |-> out_params_widgets[t]]
     /\ UNCHANGED <<out_params_layout, custom_command_counter>>

DeleteSelectedCustomCommands ==
  \E selected \in SUBSET (1..Len(custom_list_display)) :
    /\ selected # {}
    /\ delete_selected_custom_commands(selected)

\* main.py 343-346
select_all ==
  /\ command_list' = [i \in 1..Len(command_list) |-> [command_list[i] EXCEPT !.checked = TRUE]]
  /\ UNCHANGED <<custom_list_display, out_params_layout, out_params_widgets,
                 custom_command_counter>>

\* main.py 348-351
deselect_all ==
  /\ command_list' = [i \in 1..Len(command_list) |-> [command_list[i] EXCEPT !.checked = FALSE]]
  /\ UNCHANGED <<custom_list_display, out_params_layout, out_params_widgets,
                 custom_command_counter>>

\* the user types into a parameter field of the layout
EditParam ==
  /\ \E f \in 1..Len(out_params_layout), typed \in ParamTexts :
       out_params_layout' = [out_params_layout EXCEPT ![f].text = typed]
  /\ UNCHANGED <<command_list, custom_list_display, out_params_widgets,
                 custom_command_counter>>

\* main.py 415, 420: the trimmed text of the field registered for cmd, or ""
ParamValue(cmd) ==
  IF cmd \in DOMAIN out_params_widgets
    THEN Strip(out_params_layout[out_params_widgets[cmd]].text)
    ELSE <<>>

\* main.py 409-423: the entry built for one checked item
Entry(item) ==
  IF item.custom
    THEN IF item.accepts_param THEN <<item.text, ParamValue(item.text)>>
                               ELSE <<item.text, None>>
    ELSE IF item.text \in {S_out_sp_00, S_out_mode_05}
           THEN <<item.text, ParamValue(item.text)>>
           ELSE <<item.text, None>>

IsChecked(item) == item.checked

\* main.py 406-423
commands_to_send ==
  LET checked == SelectSeq(command_list, IsChecked)
  IN [i \in 1..Len(checked) |-> Entry(checked[i])]

\* main.py 404-423, 488: the worker is built with the commands of the list
start_communication ==
  /\ commands' = commands_to_send
  /\ UNCHANGED <<append_newline, tx_delay, is_running, ser, pc, idx, full_command,
                 chpos, raw_response, wire, events, stopAt>>
  /\ UNCHANGED windowVars

----------------------------------------------------------------------------
(* Specifications *)

\* a driver session against an arbitrary device
Init ==
  /\ InitDriver
  /\ InitResponder
  /\ ser_in = <<>>
  /\ InitWindow

Next ==
  \/ Open /\ UNCHANGED <<responderVars, ser_in, windowVars>>
  \/ OpenFails /\ UNCHANGED <<responderVars, ser_in, windowVars>>
  \/ LoopEnd /\ UNCHANGED <<responderVars, ser_in, windowVars>>
  \/ LoopBreak /\ UNCHANGED <<responderVars, ser_in, windowVars>>
  \/ BeginCommand /\ UNCHANGED <<responderVars, ser_in, windowVars>>
  \/ WriteByte /\ UNCHANGED <<responderVars, ser_in, windowVars>>
  \/ WriteFrame /\ UNCHANGED <<responderVars, ser_in, windowVars>>
  \/ EncodeFails /\ UNCHANGED <<responderVars, ser_in, windowVars>>
  \/ WriteFails /\ UNCHANGED <<responderVars, ser_in, windowVars>>
  \/ FlushFails /\ UNCHANGED <<responderVars, ser_in, windowVars>>
  \/ CommandDelay /\ UNCHANGED <<responderVars, ser_in, windowVars>>
  \/ ReadLine /\ UNCHANGED <<responderVars, ser_in, windowVars>>
  \/ ReadFails /\ UNCHANGED <<responderVars, ser_in, windowVars>>
  \/ Close /\ UNCHANGED <<responderVars, ser_in, windowVars>>
  \/ EmitFinished /\ UNCHANGED <<responderVars, ser_in, windowVars>>
  \/ Stop /\ UNCHANGED <<responderVars, ser_in, windowVars>>

Spec == Init /\ [][Next]_vars

\* the steps of run itself: the worker's thread is scheduled, and every write
\* and every read returns
RunStep == Run /\ UNCHANGED <<responderVars, ser_in, windowVars>>

FairSpec == Init /\ [][Next]_vars /\ WF_vars(RunStep)

\* one command encoded by the driver, carried by the line and decoded by the
\* responder
CodecNames == SeqsUpTo({"a", SP}, MaxTextLen) \ {<<>>}
CodecParams == {None} \cup SeqsUpTo({"1", SP}, MaxTextLen)

InitCodec ==
  /\ InitResponder
  /\ \E n \in CodecNames, p \in CodecParams : commands = <<<<n, p>>>>
  /\ append_newline \in BOOLEAN
  /\ tx_delay = 0
  /\ is_running = TRUE
  /\ ser = "unopened"
  /\ pc = "open"
  /\ idx = 1
  /\ full_command = <<>>
  /\ chpos = 1
  /\ raw_response = <<>>
  /\ wire = <<>>
  /\ events = <<>>
  /\ stopAt = -1
  /\ ser_in = <<>>
  /\ InitWindow

\* the bytes written by the driver (main.py 66) reach the responder's port
\* (chiller.py 29)
WireTransfer ==
  /\ pc = "delay"
  /\ r_fed = 0
  /\ r_in' = wire
  /\ r_fed' = 1
  /\ UNCHANGED <<r_pc, r_feed, r_timeouts, data, response, r_out, r_writes>>

NextCodec ==
  \/ Open /\ UNCHANGED <<responderVars, ser_in, windowVars>>
  \/ BeginCommand /\ UNCHANGED <<responderVars, ser_in, windowVars>>
  \/ WriteFrame /\ UNCHANGED <<responderVars, ser_in, windowVars>>
  \/ WireTransfer /\ UNCHANGED <<driverVars, ser_in, windowVars>>
  \/ ReadUntil /\ UNCHANGED <<driverVars, ser_in, windowVars>>

SpecCodec == InitCodec /\ [][NextCodec]_vars

\* the responder against an arbitrary peer
InitR ==
  /\ InitResponder
  /\ commands = <<>>
  /\ append_newline = FALSE
  /\ tx_delay = 0
  /\ is_running = TRUE
  /\ ser = "unopened"
  /\ pc = "open"
  /\ idx = 1
  /\ full_command = <<>>
  /\ chpos = 1
  /\ raw_response = <<>>
  /\ wire = <<>>
  /\ events = <<>>
  /\ stopAt = -1
  /\ ser_in = <<>>
  /\ InitWindow

NextR ==
  \/ PeerSend /\ UNCHANGED <<driverVars, ser_in, windowVars>>
  \/ ArriveByte /\ UNCHANGED <<driverVars, ser_in, windowVars>>
  \/ ArriveAll /\ UNCHANGED <<driverVars, ser_in, windowVars>>
  \/ ReadUntil /\ UNCHANGED <<driverVars, ser_in, windowVars>>
  \/ ReadTimeout /\ UNCHANGED <<driverVars, ser_in, windowVars>>
  \/ Latency /\ UNCHANGED <<driverVars, ser_in, windowVars>>
  \/ WriteResponse /\ UNCHANGED <<driverVars, ser_in, windowVars>>
  \/ Idle /\ UNCHANGED <<driverVars, ser_in, windowVars>>

SpecResponder == InitR /\ [][NextR]_vars

\* the steps of simulate_chiller itself: the process is scheduled, its sleeps
\* end and its reads return at the port's timeout at the latest
ResponderStep == Responder /\ UNCHANGED <<driverVars, ser_in, windowVars>>

\* the frames of the runs whose progress is checked: a key, a key ended by
\* CR LF, a set command without parameter, an unknown line, an empty line, a
\* line with a byte outside ASCII
ProgressFrames ==
  { S_VERSION \o <<CR>>,
    S_in_sp_00 \o <<CR, LF>>,
    S_out_mode_05 \o <<CR>>,
    S_foo \o <<CR>>,
    <<CR>>,
    <<"t", HighByte, CR>> }

PeerSendProgress == PeerSendFrom(ProgressFrames)

NextRP ==
  \/ PeerSendProgress /\ UNCHANGED <<driverVars, ser_in, windowVars>>
  \/ ArriveByte /\ UNCHANGED <<driverVars, ser_in, windowVars>>
  \/ ArriveAll /\ UNCHANGED <<driverVars, ser_in, windowVars>>
  \/ ReadUntil /\ UNCHANGED <<driverVars, ser_in, windowVars>>
  \/ ReadTimeout /\ UNCHANGED <<driverVars, ser_in, windowVars>>
  \/ Latency /\ UNCHANGED <<driverVars, ser_in, windowVars>>
  \/ WriteResponse /\ UNCHANGED <<driverVars, ser_in, windowVars>>
  \/ Idle /\ UNCHANGED <<driverVars, ser_in, windowVars>>

FairSpecResponder == InitR /\ [][NextRP]_vars /\ WF_vars(ResponderStep)

\* the driver and the responder at the two ends of one serial line; no call
\* on a port raises and stop() is not called
\* main.py 62, 66: what the driver writes travels to the responder's port
ToResponder ==
  /\ r_feed' = r_feed \o SubSeq(wire', Len(wire) + 1, Len(wire'))
  /\ UNCHANGED <<r_pc, r_in, r_fed, r_timeouts, data, response, r_out, r_writes, ser_in, windowVars>>

\* chiller.py 48: what the responder writes reaches the driver's port and
\* waits there until it is read
ToDriver ==
  /\ ser_in' = ser_in \o r_out'
  /\ UNCHANGED <<driverVars, windowVars>>

\* main.py 69: readline returns the bytes up to and including the first LF,
\* or at the timeout whatever the port holds
PortLine ==
  IF Find(ser_in, LF) > 0 THEN SubSeq(ser_in, 1, Find(ser_in, LF)) ELSE ser_in

ReadLineFromPort ==
  /\ ReadLineReturning({PortLine})
  /\ ser_in' = SubSeq(ser_in, Len(PortLine) + 1, Len(ser_in))

NextCoupled ==
  \/ Open /\ UNCHANGED <<responderVars, ser_in, windowVars>>
  \/ LoopEnd /\ UNCHANGED <<responderVars, ser_in, windowVars>>
  \/ BeginCommand /\ UNCHANGED <<responderVars, ser_in, windowVars>>
  \/ WriteByte /\ ToResponder
  \/ WriteFrame /\ ToResponder
  \/ EncodeFails /\ UNCHANGED <<responderVars, ser_in, windowVars>>
  \/ CommandDelay /\ UNCHANGED <<responderVars, ser_in, windowVars>>
  \/ ReadLineFromPort /\ UNCHANGED <<responderVars, windowVars>>
  \/ Close /\ UNCHANGED <<responderVars, ser_in, windowVars>>
  \/ EmitFinished /\ UNCHANGED <<responderVars, ser_in, windowVars>>
  \/ ArriveByte /\ UNCHANGED <<driverVars, ser_in, windowVars>>
  \/ ArriveAll /\ UNCHANGED <<driverVars, ser_in, windowVars>>
  \/ ReadUntil /\ UNCHANGED <<driverVars, ser_in, windowVars>>
  \/ ReadTimeout /\ UNCHANGED <<driverVars, ser_in, windowVars>>
  \/ Latency /\ UNCHANGED <<driverVars, ser_in, windowVars>>
  \/ WriteResponse /\ ToDriver
  \/ Idle /\ UNCHANGED <<driverVars, ser_in, windowVars>>

SpecCoupled == Init /\ [][NextCoupled]_vars

\* the window before a session is started: the user edits the lists and the
\* parameter fields and presses start
NextW ==
  \/ AddCustomCommand /\ UNCHANGED <<driverVars, responderVars, ser_in>>
  \/ DeleteSelectedCustomCommands /\ UNCHANGED <<driverVars, responderVars, ser_in>>
  \/ select_all /\ UNCHANGED <<driverVars, responderVars, ser_in>>
  \/ deselect_all /\ UNCHANGED <<driverVars, responderVars, ser_in>>
  \/ EditParam /\ UNCHANGED <<driverVars, responderVars, ser_in>>
  \/ start_communication /\ UNCHANGED <<responderVars, ser_in>>

SpecWindow == InitR /\ [][NextW]_vars

----------------------------------------------------------------------------
(* Properties of a session *)

N == Len(commands)
Opened == ser # "unopened"
Last(s) == s[Len(s)]

IsSending(e) == e.sig = "update_signal" /\ StartsWith(e.arg, S_Sending)
IsReceived(e) == e.sig = "update_signal" /\ StartsWith(e.arg, S_Received)
IsError(e) == e.sig = "update_signal" /\ StartsWith(e.arg, S_Error)

Count(P(_)) == Cardinality({i \in DOMAIN events : P(events[i])})
IsFinished(e) == e = Finished
HasError(msg) == \E i \in DOMAIN events : events[i] = ErrorLine(msg)

\* every frame of the list can be encoded as ASCII
AllEncodable ==
  \A i \in 1..N : Encodable(FullCommand(commands[i][1], commands[i][2], append_newline))

\* stop() was not called before the loop began the last command
NotCancelled == stopAt = -1 \/ stopAt = N

ExpectedSending(i) ==
  SendingLine(FullCommand(commands[i][1], commands[i][2], append_newline))

\* the events are Sending(1), Received(1), ..., Sending(n), Received(n), Done
FullSession(n) ==
  /\ Len(events) = 2 * n + 1
  /\ \A i \in 1..n : events[2 * i - 1] = ExpectedSending(i) /\ IsReceived(events[2 * i])
  /\ events[2 * n + 1] = Finished

\* an exception has been raised inside run (and reported by its except clause)
NoFailure == Count(IsError) = 0

\* C1 as stated: a session in which the port opened and no write or read
\* raised (here: nothing raised at all) ends with exactly N Sending/Received
\* pairs in command order and then one Done.
C1_AsStated ==
  (pc = "done" /\ Opened /\ NoFailure) => FullSession(N)

\* C1 amended: a session in which the port opened, nothing raised while a
\* command was encoded, written, flushed or read, and stop() was not called
\* before the loop began the last command, ends with exactly N
\* Sending/Received pairs in command order, then one Done and nothing after it.
C1_FullSession ==
  (pc = "done" /\ Opened /\ NoFailure /\ NotCancelled) => FullSession(N)

C1_Witness ==
  /\ pc = "done"
  /\ N >= 2
  /\ is_running
  /\ Opened
  /\ FullSession(N)

\* C2: in a session whose port was opened, the port has been closed when the
\* final Done is emitted, on every exit path.
C2_ClosedAtDone ==
  (Opened /\ Count(IsFinished) > 0) => ser = "closed"

\* C3 as stated, on command lists of ASCII text: stop() called after command
\* k's Sending and before command k+1's loop check (k < N) leaves a session of
\* exactly the k full exchanges followed by Done.
C3_AsStated ==
  (pc = "done" /\ stopAt >= 1 /\ stopAt < N /\ AllEncodable) => FullSession(stopAt)

\* C3 amended: after stop() is called after command k's Sending and before
\* command k+1's loop check (k < N), no Sending is emitted for commands
\* k+1..N and the session ends with Done; command k's exchange is completed
\* (k full pairs, then Done) unless its encode, write, flush or read raises.
C3_Cancel ==
  (stopAt >= 1 /\ stopAt < N) =>
    /\ Count(IsSending) = stopAt
    /\ pc = "done" => Last(events) = Finished
    /\ (pc = "done" /\ NoFailure) => FullSession(stopAt)

C3_Witness ==
  /\ pc = "done"
  /\ stopAt = 1
  /\ N >= 2
  /\ ser = "closed"
  /\ FullSession(1)

\* C4: when the read of command i returns nothing, the step emits exactly the
\* line Received: No response, no Error line, and the driver is back at the
\* top of the loop on command i+1 with the port still open.
C4_NoResponse ==
  [][(pc = "read" /\ raw_response' = <<>> /\ pc' # "read" /\ Count(IsError) = Count(IsError)')
       => /\ events' = Append(events, ReceivedLine(S_NoResponse))
          /\ pc' = "loop"
          /\ idx' = idx + 1
          /\ ser' = "open"]_vars

C4_Witness ==
  /\ Len(events) = 3
  /\ events[2] = ReceivedLine(S_NoResponse)
  /\ raw_response = <<>>
  /\ IsSending(events[3])
  /\ idx = 2

\* C5: when the open fails, the events are one Error and then Done: no
\* Sending, no Received, and no byte is written, whatever the command list.
C5_OpenFailure ==
  ~Opened =>
    /\ wire = <<>>
    /\ events \in {<<>>, <<ErrorLine(E_open)>>, <<ErrorLine(E_open), Finished>>}
    /\ pc = "done" => events = <<ErrorLine(E_open), Finished>>

C5_Witness ==
  /\ pc = "done"
  /\ ~Opened
  /\ N >= 1
  /\ events = <<ErrorLine(E_open), Finished>>

\* C6: a session holds at most one Error; once a write or read of command i
\* has failed no Sending or Received follows, no further byte is written, the
\* command is not sent again, and the only event that follows is Done.
C6_SingleError ==
  /\ [](/\ Count(IsError) <= 1
        /\ Count(IsError) = 1 =>
             /\ pc \in {"finish", "done"}
             /\ Count(IsSending) = idx \/ ~Opened
             /\ IF pc = "done"
                  THEN IsError(events[Len(events) - 1]) /\ Last(events) = Finished
                  ELSE IsError(Last(events)))
  /\ [][Count(IsError) = 1 =>
          /\ wire' = wire
          /\ idx' = idx
          /\ events' = events \/ events' = Append(events, Finished)]_vars

C6_Witness ==
  /\ pc = "done"
  /\ N >= 2
  /\ idx = 1
  /\ events = <<ExpectedSending(1), ErrorLine(E_read), Finished>>

\* C7: every session eventually emits Done, given that the worker runs and
\* every write and read returns; Done is emitted exactly once and is the last
\* event on every path.
C7_Terminates ==
  /\ <>(pc = "done")
  /\ [](Count(IsFinished) <= 1)
  /\ [](Count(IsFinished) = 1 => Last(events) = Finished)
  /\ [](pc = "done" <=> Count(IsFinished) = 1)

C7_Witness ==
  /\ pc = "done"
  /\ N >= 2
  /\ HasError(E_ascii)
  /\ Last(events) = Finished
  /\ Count(IsFinished) = 1

\* the frames of commands 1..k, in order
RECURSIVE FramesUpTo(_)
FramesUpTo(k) ==
  IF k = 0 THEN <<>>
  ELSE FramesUpTo(k - 1) \o FullCommand(commands[k][1], commands[k][2], append_newline)

\* C14: one command is in flight at a time. The events alternate Sending(i),
\* Received(i) in command order; the bytes on the line are the frames of the
\* commands begun so far, frame i complete before the delay and the read of
\* command i; Received(i) is emitted only from the read that follows the
\* delay, and neither Sending(i+1) nor a byte of frame i+1 comes before it.
C14_Sequential ==
  /\ [](/\ Count(IsSending) - Count(IsReceived) \in {0, 1}
        /\ \A i \in 1..Count(IsSending) : events[2 * i - 1] = ExpectedSending(i)
        /\ \A i \in 1..Count(IsReceived) : IsReceived(events[2 * i])
        /\ pc = "write" =>
             /\ Count(IsSending) = idx /\ Count(IsReceived) = idx - 1
             /\ wire = FramesUpTo(idx - 1) \o SubSeq(full_command, 1, chpos - 1)
        /\ pc \in {"delay", "read"} =>
             /\ Count(IsSending) = idx /\ Count(IsReceived) = idx - 1
             /\ wire = FramesUpTo(idx)
        /\ pc \in {"loop", "close"} =>
             /\ Count(IsSending) = idx - 1 /\ Count(IsReceived) = idx - 1
             /\ wire = FramesUpTo(idx - 1))
  /\ [][/\ Count(IsReceived)' # Count(IsReceived) => pc = "read" /\ pc' = "loop"
        /\ (pc' = "read" /\ pc # "read") => pc = "delay"
        /\ Count(IsSending)' # Count(IsSending) =>
             pc = "loop" /\ Count(IsReceived) = Count(IsSending)]_vars

C14_Witness ==
  /\ pc = "write"
  /\ idx = 2
  /\ tx_delay = 1
  /\ chpos = 3
  /\ Count(IsReceived) = 1
  /\ Len(wire) = Len(FramesUpTo(1)) + 2

\* the frame of a command as the wire format gives it
WireFrame(cmd, param, newline) ==
  (IF param = None \/ param = <<>> THEN cmd ELSE cmd \o <<SP>> \o param)
    \o (IF newline THEN <<CR, LF>> ELSE <<CR>>)

RECURSIVE WireUpTo(_)
WireUpTo(k) ==
  IF k = 0 THEN <<>>
  ELSE WireUpTo(k - 1) \o WireFrame(commands[k][1], commands[k][2], append_newline)

\* C18: the bytes written for a command are its name alone when the parameter
\* is None or empty, name, one space and parameter otherwise, then CR, or
\* CR LF when append_newline is set, and no other byte.
C18_FrameBytes ==
  /\ pc \in {"delay", "read"} => wire = WireUpTo(idx)
  /\ pc \in {"loop", "close"} => wire = WireUpTo(idx - 1)
  /\ pc = "write" => full_command = WireFrame(commands[idx][1], commands[idx][2], append_newline)

C18_Witness ==
  /\ pc = "delay"
  /\ idx = 2
  /\ append_newline
  /\ tx_delay = 1
  /\ commands[1] = <<S_in_sp_00, <<>>>>
  /\ commands[2] = <<S_out_mode_05, <<"1">>>>
  /\ wire = S_in_sp_00 \o <<CR, LF>> \o S_out_mode_05 \o <<SP, "1", CR, LF>>

\* a read that ended at the timeout with bytes but no line terminator
Partial(raw) == raw # <<>> /\ raw[Len(raw)] # LF

\* C19 as stated: after a read that ended with a partial line, the Received
\* line is No response.
C19_AsStated ==
  (pc = "loop" /\ idx > 1 /\ Partial(raw_response))
    => Last(events) = ReceivedLine(S_NoResponse)

\* C19 amended: after a read that ended with a partial line, the Received
\* line carries the bytes that were read, decoded as ASCII with the bytes
\* outside ASCII dropped and trailing CR and LF removed; No response is
\* reported only for a read that returned no byte.
C19_PartialDecoded ==
  (pc = "loop" /\ idx > 1) =>
    /\ Partial(raw_response) =>
         Last(events) = ReceivedLine(RStripCRLF(SelectSeq(raw_response, IsAscii)))
    /\ Last(events) = ReceivedLine(S_NoResponse) => raw_response = <<>>

C19_Witness ==
  /\ pc = "loop"
  /\ idx = 2
  /\ raw_response = <<"1", HighByte>>
  /\ Last(events) = ReceivedLine(<<"1">>)

\* no write or flush on the port has raised
NoTransportFailure ==
  \A i \in 1..Len(events) :
    events[i] \notin {ErrorLine(E_open), ErrorLine(E_write), ErrorLine(E_flush), ErrorLine(E_read)}

\* C21: whatever tx_delay is, the bytes on the wire are those the single
\* write puts there: outside the transmit step, and with no failure of the
\* port, the wire holds whole frames of the leading commands and no other
\* byte.
C21_SameBytes ==
  (pc # "write" /\ NoTransportFailure) =>
    \E k \in 0..Len(commands) : wire = WireUpTo(k)

----------------------------------------------------------------------------
(* Properties of the responder *)

Keys == DOMAIN RESPONSES

\* the responder's write step
Writes == r_pc = "write" /\ r_pc' = "read"

\* the first unread bytes are the frame of line l, after the LF a CR LF
\* terminator may have left behind
FrameAtHead(l) == StartsWith(LStripSet(r_in, {LF}), l \o <<CR>>)

\* C8: for every key c of the table, the line c with no parameter, sent as
\* c CR or as c CR LF, is answered by exactly RESPONSES[c] CR LF, whatever was
\* handled before.
C8_TableResponse ==
  /\ [][\A c \in Keys :
          (r_pc = "read" /\ r_pc' # "read" /\ FrameAtHead(c))
            => data' = c /\ response' = RESPONSES[c] /\ r_pc' = "latency"]_vars
  /\ [][\A c \in Keys :
          (Writes /\ data = c) => r_out' = RESPONSES[c] \o <<CR, LF>>]_vars

C8_Witness ==
  /\ r_writes = 2
  /\ r_fed = 2
  /\ r_timeouts = 0
  /\ r_pc = "read"
  /\ r_in = <<LF>>
  /\ r_out = R_in_sp_00 \o <<CR, LF>>

\* the text after the first space of a line, None when it has no space
Remainder(l) ==
  IF Find(l, SP) = 0 THEN None ELSE SubSeq(l, Find(l, SP) + 1, Len(l))

\* C9: a trimmed line that starts with out_sp_00 is answered by
\* "Setpoint updated to " + r when the split on the first space leaves a
\* remainder r, by "Missing parameter for out_sp_00" when it has no space, and
\* never from the table.
C9_Setpoint ==
  [][(Writes /\ StartsWith(data, S_out_sp_00)) =>
       r_out' = (IF Remainder(data) = None
                   THEN S_MissingSp
                   ELSE S_SetpointUpdatedTo \o Remainder(data)) \o <<CR, LF>>]_vars

C9_Witness ==
  /\ r_writes >= 1
  /\ r_timeouts = 0
  /\ r_out = S_SetpointUpdatedTo \o <<SP, "2">> \o <<CR, LF>>

\* C10: a trimmed line that starts with out_mode_05 is answered by "Chiller
\* turned on" when the remainder after the first space is exactly "1", by
\* "Chiller turned off" for every other remainder, and by "Missing parameter
\* for out_mode_05" when it has no space.
C10_Mode ==
  [][(Writes /\ StartsWith(data, S_out_mode_05) /\ ~StartsWith(data, S_out_sp_00)) =>
       r_out' = (IF Remainder(data) = None THEN S_MissingMode
                 ELSE IF Remainder(data) = <<"1">> THEN S_ChillerOn
                 ELSE S_ChillerOff) \o <<CR, LF>>]_vars

C10_Witness ==
  /\ r_writes = 2
  /\ r_timeouts = 0
  /\ r_out = S_ChillerOff \o <<CR, LF>>

\* the bytes the next read takes from the port: up to and including the
\* first CR, or all that has arrived when there is none
NextRaw == IF Find(r_in, CR) > 0 THEN SubSeq(r_in, 1, Find(r_in, CR)) ELSE r_in

\* the responder's read step
Reads == r_pc = "read" /\ r_pc' # "read"

Unrecognized(l) ==
  /\ l # <<>>
  /\ ~StartsWith(l, S_out_sp_00)
  /\ ~StartsWith(l, S_out_mode_05)
  /\ l \notin Keys

\* C11: a non-empty trimmed line that starts with neither out_sp_00 nor
\* out_mode_05 and is no key of the table is answered by OK CR LF, and the
\* responder is back at its read: no error, no stop.
C11_UnknownIsOK ==
  /\ [][(Reads /\ Encodable(NextRaw) /\ Unrecognized(Strip(NextRaw)))
          => r_pc' = "latency" /\ response' = S_OK]_vars
  /\ [][(Writes /\ Unrecognized(data))
          => r_out' = S_OK \o <<CR, LF>> /\ r_pc' = "read"]_vars

C11_Witness ==
  /\ r_pc = "read"
  /\ r_fed = 1
  /\ r_feed = <<>>
  /\ r_in = <<>>
  /\ r_timeouts = 0
  /\ r_writes = 1
  /\ r_out = S_OK \o <<CR, LF>>

\* C12: whatever bytes arrive, the responder stays in its read/dispatch loop.
C12_NeverTerminates == r_pc # "crashed"

----------------------------------------------------------------------------
(* Properties of the frame codec *)

\* the responder's decoding of a trimmed line: split on the first space
DecodedName == Strip(Split1(data)[1])
DecodedParam == IF Len(Split1(data)) > 1 THEN Strip(Split1(data)[2]) ELSE None

\* the pair that was encoded, up to whitespace trimming; an empty parameter
\* is an absent one
SentName == Strip(commands[1][1])
SentParam ==
  IF commands[1][2] = None \/ Strip(commands[1][2]) = <<>>
    THEN None
    ELSE Strip(commands[1][2])

Decoded == r_fed = 1 /\ r_pc \in {"latency", "idle"}
RoundTrip == DecodedName = SentName /\ DecodedParam = SentParam

\* C13 as stated, on names that are non-empty and already trimmed: the frame
\* built from (name, parameter), decoded the way the responder does, gives
\* back the name and the parameter, names that contain a space included.
C13_AsStated ==
  (Decoded /\ SentName = commands[1][1] /\ SentName # <<>>) => RoundTrip

\* C13 amended: the round trip gives back the name and the parameter, up to
\* whitespace trimming and with an empty parameter read as an absent one, for
\* every name whose trimmed text is non-empty and contains no space.
C13_RoundTrip ==
  (Decoded /\ SentName # <<>> /\ Find(SentName, SP) = 0) => RoundTrip

C13_Witness ==
  /\ Decoded
  /\ commands[1] = <<<<"a", "a", SP>>, <<SP, "1", "1">>>>
  /\ append_newline
  /\ DecodedName = <<"a", "a">>
  /\ DecodedParam = <<"1", "1">>

\* C15: the responder answers complete lines only: a read that leads to a
\* response has taken a line ended by CR; bytes that have arrived without
\* their CR are kept until it comes and are never answered as a fragment.
C15_CompleteLinesOnly ==
  [][(Reads /\ r_pc' = "latency") => Find(r_in, CR) > 0]_vars

\* C16: when the text read is empty once trimmed (a bare CR, the LF left by a
\* CR LF terminator, whitespace, or nothing at all), nothing is written and
\* the responder goes back to its read after the idle sleep.
C16_EmptyLine ==
  /\ [][(Reads /\ Encodable(NextRaw) /\ Strip(NextRaw) = <<>>)
          => /\ r_pc' = "idle"
             /\ r_out' = r_out
             /\ r_writes' = r_writes]_vars
  /\ [][r_pc = "idle"
          => /\ r_pc' \in {"idle", "read"}
             /\ r_out' = r_out
             /\ r_writes' = r_writes]_vars

C16_Witness ==
  /\ r_pc = "idle"
  /\ r_fed = 1
  /\ r_feed = <<>>
  /\ r_in = <<>>
  /\ r_timeouts = 1
  /\ r_writes = 1
  /\ r_out = R_VERSION \o <<CR, LF>>

\* C17: every read of a non-empty trimmed line is followed by the write of
\* its response and CR LF after the latency sleep, and then by the next read:
\* the responder does not stay in its dispatch and skips no response.
C17_Responds ==
  /\ [][(Reads /\ Encodable(NextRaw) /\ Strip(NextRaw) # <<>>)
          => r_pc' = "latency" /\ data' = Strip(NextRaw)]_vars
  /\ [][r_pc = "latency"
          => \/ r_pc' = "latency" /\ response' = response
             \/ r_pc' = "write" /\ response' = response /\ r_writes' = r_writes]_vars
  /\ [][r_pc = "write"
          => \/ r_pc' = "write" /\ response' = response /\ r_writes' = r_writes
             \/ /\ r_pc' = "read"
                /\ r_out' = response \o <<CR, LF>>
                /\ r_writes' = r_writes + 1]_vars
  /\ (r_pc \in {"latency", "write"}) ~> (r_pc = "read")

C17_Witness ==
  /\ r_pc = "read"
  /\ r_fed = 2
  /\ r_writes = 3
  /\ r_timeouts = 1
  /\ r_in = <<>>
  /\ r_feed = <<>>
  /\ r_out = S_MissingMode \o <<CR, LF>>

\* C20: the response is a function of the trimmed line alone, whatever was
\* handled and written before: in_sp_00 is answered 2.00 after any out_sp_00,
\* in_mode_05 is answered 1 after any out_mode_05.
C20_Stateless ==
  r_pc \in {"latency", "write"} =>
    /\ response = Respond(data)
    /\ data = S_in_sp_00 => response = R_in_sp_00
    /\ data = S_in_mode_05 => response = R_in_mode_05

C20_Witness ==
  /\ r_pc = "write"
  /\ data = S_in_sp_00
  /\ response = R_in_sp_00
  /\ r_out = S_SetpointUpdatedTo \o <<"5", ".", "0", "0", CR, LF>>

----------------------------------------------------------------------------
(* Properties of the driver and the responder on one line *)

\* the response the responder produces for the line of command i
OwnResponse(i) == Respond(Strip(BaseCommand(commands[i][1], commands[i][2])))

\* C22: with no transport failure the Received line of command i carries
\* No response or the response the responder produced for the line of
\* command i, never the response to another command, whatever the timing;
\* stated for the runs in which every line the responder handled was
\* complete.
C22_NoStale ==
  r_timeouts = 0 =>
    \A i \in 1..Len(commands) :
      (2 * i <= Len(events) /\ IsReceived(events[2 * i])) =>
        events[2 * i] \in {ReceivedLine(S_NoResponse), ReceivedLine(OwnResponse(i))}

----------------------------------------------------------------------------
(* Properties of the window *)

\* the parameter field of a command: the field of the layout labelled with
\* its text, the latest one when several carry the label
FieldLabelled(text) ==
  LET fields == {f \in 1..Len(out_params_layout) : out_params_layout[f].label = text}
  IN CHOOSE f \in fields : \A g \in fields : g <= f

TakesParam(item) ==
  \/ item.custom /\ item.accepts_param
  \/ ~item.custom /\ item.text \in {S_out_sp_00, S_out_mode_05}

ExpectedEntry(item) ==
  IF TakesParam(item)
    THEN <<item.text, Strip(out_params_layout[FieldLabelled(item.text)].text)>>
    ELSE <<item.text, None>>

\* C23: after any sequence of add_custom_command and
\* delete_selected_custom_commands, start_communication builds the commands
\* from the checked items in list order, and a checked standard out_sp_00 or
\* out_mode_05 entry, and every checked custom command that accepts a
\* parameter, is sent with the trimmed text of its parameter field.
C23_StartBuilds ==
  [][start_communication =>
       LET checked == SelectSeq(command_list, IsChecked)
       IN commands' = [i \in 1..Len(checked) |-> ExpectedEntry(checked[i])]]_vars

====
